---- MODULE Spec2Model ----
(***************************************************************************)
(* A model of the Keychain password vault (keychain.js) and its helper     *)
(* library (lib.js).                                                       *)
(*                                                                         *)
(* Representation of the JavaScript values:                                *)
(*  - a password, an error message or a text that is not JSON is the       *)
(*    sequence of its code points (all below 2048);                        *)
(*  - an entry name or an entry value is a TLA+ string of ASCII characters *)
(*    that JSON writes as they are;                                        *)
(*  - a JavaScript value is a record [type, str];                          *)
(*  - the vault object is its prototype and the sequence of its own        *)
(*    enumerable properties in the order of its keys: the array indices    *)
(*    ascending, then the other names in the order of their creation;      *)
(*  - a byte buffer of random bytes is a sequence of numbers 0..255;       *)
(*  - WebCrypto is ideal but for the hash HMAC applies to a long key: a    *)
(*    derived key is determined by the HMAC key block of the password and  *)
(*    the salt, a ciphertext by the key, the iv and the plaintext it was   *)
(*    made from (delta > 0: byte delta of it was altered afterwards), a    *)
(*    digest of a text by the text it was taken of;                        *)
(*  - a base64 text is the buffer it denotes and the value of the unused   *)
(*    low bits of its last sextet (slack; 0 in what the encoder writes);   *)
(*  - a JSON text is its syntax class and the members it denotes.          *)
(***************************************************************************)
EXTENDS Integers, Sequences, FiniteSets, TLC

(* ---------------------------- bounds ----------------------------------- *)

\* getRandomBytes draws a buffer all of whose bytes are one value 0..MaxRandomByte
MaxRandomByte == 1
\* byte positions 1..MaxFlipPos of a field are the ones a tamperer alters
MaxFlipPos == 2
\* the names that are numerals of 0..MaxArrayIndex are the array indices
MaxArrayIndex == 99

(* ------------------------ program constants ---------------------------- *)

PBKDF2_ITERATIONS == 100000
\* getRandomBytes(16) in Keychain.init
SaltBytes == 16
\* getRandomBytes(12) in Keychain.dump
IvBytes == 12
\* block size in bytes of the hash named in deriveKey ("SHA-256"): HMAC pads
\* a shorter key with zero bytes up to it and hashes a longer key first
HmacBlockBytes == 64

\* code points: "p", "q" and NUL
Passwords == { <<112>>, <<112, 0>>, <<113>> }
Names == { "a", "toString", "__proto__" }
\* the <<name, value>> pairs that set is called with
Writes ==
  { << "a", "" >>, << "a", "x" >>, << "toString", "x" >>, << "__proto__", "x" >> }

(* ------------------------- JavaScript values --------------------------- *)

JsString(s) == [type |-> "string", str |-> s]
JsNull == [type |-> "null", str |-> ""]
JsUndefined == [type |-> "undefined", str |-> ""]
JsTrue == [type |-> "boolean", str |-> "true"]
JsFalse == [type |-> "boolean", str |-> "false"]
\* a built-in function named toString, such as Object.prototype.toString
JsFunction == [type |-> "function", str |-> ""]
\* the object Object.prototype itself, what the accessor __proto__ returns
JsObjectPrototype == [type |-> "object", str |-> "Object.prototype"]
\* an object {} without own properties, as JSON.parse makes it of "{}"
JsEmptyObject == [type |-> "object", str |-> "{}"]

\* ToBoolean
Truthy(v) ==
  CASE v.type = "string" -> v.str # ""
    [] v.type = "boolean" -> v.str = "true"
    [] v.type \in {"null", "undefined"} -> FALSE
    [] OTHER -> TRUE

\* the properties of Object.prototype among the names of the model
ObjectPrototypeNames == { "toString", "__proto__" }

\* {}: no own property, the prototype is Object.prototype
EmptyObject == [proto |-> JsObjectPrototype, own |-> << >>]

OwnIndex(obj, name) ==
  IF \E i \in 1..Len(obj.own) : obj.own[i].name = name
  THEN CHOOSE i \in 1..Len(obj.own) : obj.own[i].name = name
  ELSE 0

HasOwn(obj, name) == OwnIndex(obj, name) # 0

\* name is a property of Object.prototype and the prototype chain of obj
\* ends in Object.prototype
Inherits(obj, name) == obj.proto # JsNull /\ name \in ObjectPrototypeNames

\* obj[name]: the own property, else what the prototype chain gives; the
\* accessor __proto__ returns the prototype
PropGet(obj, name) ==
  IF HasOwn(obj, name) THEN obj.own[OwnIndex(obj, name)].value
  ELSE IF ~Inherits(obj, name) THEN JsUndefined
  ELSE IF name = "__proto__" THEN obj.proto
  ELSE JsFunction

DecimalDigits == << "0", "1", "2", "3", "4", "5", "6", "7", "8", "9" >>

RECURSIVE Numeral(_)
\* ToString of an integer that is not negative: its decimal digits
Numeral(n) ==
  IF n < 10 THEN DecimalDigits[n + 1]
  ELSE Numeral(n \div 10) \o DecimalDigits[(n % 10) + 1]

RECURSIVE NumeralLength(_)
\* the number of digits of Numeral(n)
NumeralLength(n) == IF n < 10 THEN 1 ELSE 1 + NumeralLength(n \div 10)

RECURSIVE Pow10(_)
Pow10(n) == IF n = 0 THEN 1 ELSE 10 * Pow10(n - 1)

\* the integers up to MaxArrayIndex whose numeral has len digits
NumeralsOfLength(len) ==
  (IF len = 1 THEN 0 ELSE Pow10(len - 1))
    ..(IF Pow10(len) - 1 < MaxArrayIndex THEN Pow10(len) - 1
       ELSE MaxArrayIndex)

\* the array index that a property key is the numeral of, or -1: a key is
\* an array index exactly if it is ToString of an integer ("01" is none)
ArrayIndex(name) ==
  IF Len(name) = 0 \/ Len(name) > NumeralLength(MaxArrayIndex) THEN -1
  ELSE IF \E n \in NumeralsOfLength(Len(name)) : Numeral(n) = name
  THEN CHOOSE n \in NumeralsOfLength(Len(name)) : Numeral(n) = name
  ELSE -1

\* the number of own properties of obj that the keys of obj list before a
\* new property name (OrdinaryOwnPropertyKeys): the array indices come
\* first and ascending, the other names follow in the order of creation
KeysBefore(obj, name) ==
  IF ArrayIndex(name) < 0 THEN Len(obj.own)
  ELSE Cardinality({ i \in 1..Len(obj.own) :
                       /\ ArrayIndex(obj.own[i].name) >= 0
                       /\ ArrayIndex(obj.own[i].name) < ArrayIndex(name) })

\* CreateDataProperty(obj, name, value): the own property is given the
\* value, or made if there is none
CreateDataProperty(obj, name, value) ==
  IF HasOwn(obj, name)
  THEN [obj EXCEPT !.own[OwnIndex(obj, name)].value = value]
  ELSE [obj EXCEPT !.own =
          SubSeq(@, 1, KeysBefore(obj, name))
            \o << [name |-> name, value |-> value] >>
            \o SubSeq(@, KeysBefore(obj, name) + 1, Len(@))]

\* obj[name] = value. Without an own property __proto__ the assignment runs
\* the setter that Object.prototype gives: it makes an object or null the
\* prototype of obj, ignores any other value, and adds no own property. An
\* object whose prototype is null has no such setter.
PropSet(obj, name, value) ==
  IF ~HasOwn(obj, name) /\ name = "__proto__" /\ Inherits(obj, name)
  THEN IF value.type \in { "object", "function", "null" }
       THEN [obj EXCEPT !.proto = value]
       ELSE obj
  ELSE CreateDataProperty(obj, name, value)

\* name in obj: own or inherited
HasProperty(obj, name) == HasOwn(obj, name) \/ Inherits(obj, name)

\* delete obj[name]
PropDelete(obj, name) ==
  IF HasOwn(obj, name)
  THEN [obj EXCEPT !.own = SubSeq(@, 1, OwnIndex(obj, name) - 1)
                             \o SubSeq(@, OwnIndex(obj, name) + 1, Len(@))]
  ELSE obj

\* a faulty listing: the names whose value is truthy
ObjectKeysTruthy(obj) ==
  LET kept == SelectSeq(obj.own, LAMBDA e : Truthy(e.value))
  IN [i \in 1..Len(kept) |-> kept[i].name]

\* Object.keys(obj)
ObjectKeys(obj) == [i \in 1..Len(obj.own) |-> obj.own[i].name]

OwnNames(obj) == { obj.own[i].name : i \in 1..Len(obj.own) }

\* the entries of the vault as a map from the names that have one
Entries(obj) == [n \in OwnNames(obj) |-> obj.own[OwnIndex(obj, n)].value]

(* ------------------------------- JSON ---------------------------------- *)

\* a faulty JSON.stringify: it leaves out the members whose value is falsy
JSONstringifyTruthy(obj) ==
  [syntax |-> "object",
   members |-> SelectSeq(obj.own, LAMBDA m : m.value.str # "")]

\* what JSON.parse reads where JSON.stringify wrote value: Object.prototype
\* has no enumerable property and is written as {}
JsonValue(value) == IF value.type = "object" THEN JsEmptyObject ELSE value

\* JSON.stringify of an object: its own properties but those whose value is
\* undefined or a function; the prototype is not written
JSONstringify(obj) ==
  LET written == SelectSeq(obj.own,
                   LAMBDA m : m.value.type \notin { "undefined", "function" })
  IN [syntax |-> "object",
      members |-> [i \in 1..Len(written) |->
                     [name |-> written[i].name,
                      value |-> JsonValue(written[i].value)]]]

\* a text that is not JSON: it starts with a letter and is none of the
\* literals null, true and false, alone or with white space after it
RawText(chars) == [syntax |-> "raw", chars |-> chars]

\* "not json"
NotJsonChars ==
  << 110, 111, 116, 32, 106, 115, 111, 110 >>

\* "Failed to decrypt"
FailedToDecryptChars ==
  << 70, 97, 105, 108, 101, 100, 32, 116, 111, 32, 100, 101, 99, 114, 121,
    112, 116 >>

NotJson == RawText(NotJsonChars)

\* the texts that are not JSON which a caller sends or seals
RawTexts == << NotJsonChars, FailedToDecryptChars >>

RECURSIVE DefineMembers(_, _)
\* JSON.parse defines each member in turn with CreateDataProperty
\* (__proto__ becomes an own property like any other)
DefineMembers(obj, members) ==
  IF members = << >> THEN obj
  ELSE DefineMembers(
         CreateDataProperty(obj, Head(members).name, Head(members).value),
         Tail(members))

\* JSON.parse: [ok, value]; ok = FALSE stands for the SyntaxError thrown
JSONparseVault(text) ==
  IF text.syntax = "object"
  THEN [ok |-> TRUE, value |-> DefineMembers(EmptyObject, text.members)]
  ELSE [ok |-> FALSE, value |-> EmptyObject]

\* the number of characters JSON.stringify writes for a value
JsonValueLength(value) ==
  CASE value.type = "string" -> Len(value.str) + 2
    [] value.type = "null" -> 4
    [] value.type = "boolean" -> Len(value.str)
    [] OTHER -> 2

RECURSIVE JsonMembersLength(_)
\* the characters of the members "name":value and of the commas before them
JsonMembersLength(members) ==
  IF members = << >> THEN 0
  ELSE Len(Head(members).name) + 3 + JsonValueLength(Head(members).value)
         + (IF Len(members) > 1 THEN 1 ELSE 0)
         + JsonMembersLength(Tail(members))

(* ------------------------------ lib.js --------------------------------- *)

RECURSIVE stringToBuffer(_)
\* TextEncoder.encode: UTF-8, one byte below 128 and two bytes below 2048
stringToBuffer(str) ==
  IF str = << >> THEN << >>
  ELSE LET c == Head(str)
       IN (IF c < 128 THEN << c >>
           ELSE << 192 + (c \div 64), 128 + (c % 64) >>)
          \o stringToBuffer(Tail(str))

\* TextEncoder.encode of a JSON text or of a representation string: both
\* are well formed, so the encoding loses nothing
textToBuffer(text) == [utf8 |-> text]

\* TextDecoder.decode of such a buffer
bufferToString(buf) == buf.utf8

\* the number of bytes of the UTF-8 encoding of a JSON text of the vault or
\* of a text that is not JSON
Utf8Length(text) ==
  IF text.syntax = "object"
  THEN 2 + JsonMembersLength(text.members)
  ELSE Len(stringToBuffer(text.chars))

\* the number of characters of the base64 text of n bytes
Base64Length(n) == 4 * ((n + 2) \div 3)

\* Buffer.from(buf).toString('base64'): the canonical text of the buffer
encodeBuffer(buf) == [def |-> TRUE, bytes |-> buf, slack |-> 0]

\* Buffer.from(str, 'base64'): the decoder does not look at the unused bits
\* of the last sextet; [ok, bytes], ok = FALSE stands for the TypeError
\* thrown for undefined
decodeBuffer(str) == [ok |-> str.def, bytes |-> str.bytes]

\* webcrypto.getRandomValues(new Uint8Array(n)): the buffers it may return
getRandomBytes(n) == { [i \in 1..n |-> b] : b \in 0..MaxRandomByte }

(* ----------------------------- WebCrypto ------------------------------- *)

Zeros(n) == [i \in 1..n |-> 0]

\* SHA-256 (FIPS 180-4) of a sequence of bytes, as a sequence of 32 bytes.
\* A 32-bit word is the pair << hi, lo >> of its halves, numbers below 65536.
RECURSIVE Xor16(_, _)
Xor16(a, b) ==
  IF a = 0 /\ b = 0 THEN 0
  ELSE ((a + b) % 2) + 2 * Xor16(a \div 2, b \div 2)

RECURSIVE And16(_, _)
And16(a, b) ==
  IF a = 0 \/ b = 0 THEN 0
  ELSE ((a % 2) * (b % 2)) + 2 * And16(a \div 2, b \div 2)

Xor32(a, b) == << Xor16(a[1], b[1]), Xor16(a[2], b[2]) >>
And32(a, b) == << And16(a[1], b[1]), And16(a[2], b[2]) >>
Not32(a) == << 65535 - a[1], 65535 - a[2] >>

\* shift to the right by n < 16 bits
ShR32(a, n) ==
  << a[1] \div 2^n, (a[2] \div 2^n) + (a[1] % 2^n) * 2^(16 - n) >>

\* rotation to the right by n < 32 bits: by 16 bits the halves change
\* places
RotR32(a, n) ==
  IF n >= 16
  THEN << (a[2] \div 2^(n - 16)) + (a[1] % 2^(n - 16)) * 2^(32 - n),
          (a[1] \div 2^(n - 16)) + (a[2] % 2^(n - 16)) * 2^(32 - n) >>
  ELSE << (a[1] \div 2^n) + (a[2] % 2^n) * 2^(16 - n),
          (a[2] \div 2^n) + (a[1] % 2^n) * 2^(16 - n) >>

\* addition modulo 2^32
Add32(a, b) ==
  << (a[1] + b[1] + ((a[2] + b[2]) \div 65536)) % 65536,
     (a[2] + b[2]) % 65536 >>

\* the round constants and the initial hash value
Sha256K ==
  <<
     << 17034, 12184 >>, << 28983, 17553 >>, << 46528, 64463 >>, << 59829, 56229 >>,
     << 14678, 49755 >>, << 23025, 4593 >>, << 37439, 33444 >>, << 43804, 24277 >>,
     << 55303, 43672 >>, << 4739, 23297 >>, << 9265, 34238 >>, << 21772, 32195 >>,
     << 29374, 23924 >>, << 32990, 45566 >>, << 39900, 1703 >>, << 49563, 61812 >>,
     << 58523, 27073 >>, << 61374, 18310 >>, << 4033, 40390 >>, << 9228, 41420 >>,
     << 11753, 11375 >>, << 19060, 33962 >>, << 23728, 43484 >>, << 30457, 35034 >>,
     << 38974, 20818 >>, << 43057, 50797 >>, << 45059, 10184 >>, << 48985, 32711 >>,
     << 50912, 3059 >>, << 54695, 37191 >>, << 1738, 25425 >>, << 5161, 10599 >>,
     << 10167, 2693 >>, << 11803, 8504 >>, << 19756, 28156 >>, << 21304, 3347 >>,
     << 25866, 29524 >>, << 30314, 2747 >>, << 33218, 51502 >>, << 37490, 11397 >>,
     << 41663, 59553 >>, << 43034, 26187 >>, << 49739, 35696 >>, << 51052, 20899 >>,
     << 53650, 59417 >>, << 54937, 1572 >>, << 62478, 13701 >>, << 4202, 41072 >>,
     << 6564, 49430 >>, << 7735, 27656 >>, << 10056, 30540 >>, << 13488, 48309 >>,
     << 14620, 3251 >>, << 20184, 43594 >>, << 23452, 51791 >>, << 26670, 28659 >>,
     << 29839, 33518 >>, << 30885, 25455 >>, << 33992, 30740 >>, << 36039, 520 >>,
     << 37054, 65530 >>, << 42064, 27883 >>, << 48889, 41975 >>, << 50801, 30962 >> >>

Sha256H ==
  <<
     << 27145, 58983 >>, << 47975, 44677 >>, << 15470, 62322 >>, << 42319, 62778 >>,
     << 20750, 21119 >>, << 39685, 26764 >>, << 8067, 55723 >>, << 23520, 52505 >> >>

\* the functions of FIPS 180-4, section 4.1.2
Sha256Ch(x, y, z) == Xor32(And32(x, y), And32(Not32(x), z))
Sha256Maj(x, y, z) == Xor32(Xor32(And32(x, y), And32(x, z)), And32(y, z))
Sha256BigSigma0(x) == Xor32(Xor32(RotR32(x, 2), RotR32(x, 13)), RotR32(x, 22))
Sha256BigSigma1(x) == Xor32(Xor32(RotR32(x, 6), RotR32(x, 11)), RotR32(x, 25))
Sha256Sigma0(x) == Xor32(Xor32(RotR32(x, 7), RotR32(x, 18)), ShR32(x, 3))
Sha256Sigma1(x) == Xor32(Xor32(RotR32(x, 17), RotR32(x, 19)), ShR32(x, 10))

\* the message padded to a multiple of 64 bytes: a byte 128, zero bytes, and
\* the length of the message in bits as a number of 8 bytes
Sha256Pad(bytes) ==
  bytes \o << 128 >>
    \o [i \in 1..(((119 - (Len(bytes) % 64)) % 64) + 4) |-> 0]
    \o << (8 * Len(bytes)) \div 16777216, ((8 * Len(bytes)) \div 65536) % 256,
          ((8 * Len(bytes)) \div 256) % 256, (8 * Len(bytes)) % 256 >>

RECURSIVE Sha256Schedule(_)
\* the 64 words of the message schedule, from the 16 words of a block
Sha256Schedule(w) ==
  IF Len(w) = 64 THEN w
  ELSE Sha256Schedule(
         Append(w, Add32(Add32(Add32(Sha256Sigma1(w[Len(w) - 1]), w[Len(w) - 6]),
                               Sha256Sigma0(w[Len(w) - 14])),
                         w[Len(w) - 15])))

\* T1 and T2 of round t on the working variables v = << a, ..., h >>
Sha256T1(v, w, t) ==
  Add32(Add32(Add32(Add32(v[8], Sha256BigSigma1(v[5])),
                    Sha256Ch(v[5], v[6], v[7])),
              Sha256K[t]),
        w[t])
Sha256T2(v) == Add32(Sha256BigSigma0(v[1]), Sha256Maj(v[1], v[2], v[3]))

RECURSIVE Sha256Rounds(_, _)
\* the compression function from round s.t on, on the working variables s.v
Sha256Rounds(s, w) ==
  IF s.t > 64 THEN s.v
  ELSE Sha256Rounds(
         [t |-> s.t + 1,
          v |-> << Add32(Sha256T1(s.v, w, s.t), Sha256T2(s.v)),
                   s.v[1], s.v[2], s.v[3],
                   Add32(s.v[4], Sha256T1(s.v, w, s.t)),
                   s.v[5], s.v[6], s.v[7] >>],
         w)

\* the 16 words of a block of 64 bytes
Sha256Words(block) ==
  [i \in 1..16 |-> << 256 * block[4 * i - 3] + block[4 * i - 2],
                      256 * block[4 * i - 1] + block[4 * i] >>]

\* the hash value h after one more block
Sha256Compress(h, v) == [i \in 1..8 |-> Add32(h[i], v[i])]

RECURSIVE Sha256Blocks(_, _)
\* the hash value after the blocks of the padded message
Sha256Blocks(h, padded) ==
  IF padded = << >> THEN h
  ELSE Sha256Blocks(
         Sha256Compress(h,
           Sha256Rounds([t |-> 1, v |-> h],
                        Sha256Schedule(Sha256Words(SubSeq(padded, 1, 64))))),
         SubSeq(padded, 65, Len(padded)))

\* the bytes of a hash value of 8 words
Sha256Digest(h) ==
  [i \in 1..32 |->
     IF i % 2 = 1
     THEN h[((i - 1) \div 4) + 1][(((i - 1) % 4) \div 2) + 1] \div 256
     ELSE h[((i - 1) \div 4) + 1][(((i - 1) % 4) \div 2) + 1] % 256]

\* the hash of HMAC-SHA-256 applied to a key: the 32 bytes of its digest
Sha256Bytes(bytes) == Sha256Digest(Sha256Blocks(Sha256H, Sha256Pad(bytes)))

\* the key block HMAC works with (RFC 2104): a key longer than the block is
\* replaced by its digest, and the key is padded with zero bytes
HmacKeyBlock(key) ==
  IF Len(key) > HmacBlockBytes
  THEN Sha256Bytes(key) \o Zeros(HmacBlockBytes - 32)
  ELSE key \o Zeros(HmacBlockBytes - Len(key))

\* subtle.digest("SHA-256", buf) of the buffer of a text
Sha256(buf) == [sha256 |-> buf]

\* the authentication tag AES-GCM appends to the ciphertext, in bytes
GcmTagBytes == 16

\* the number of bytes of a ciphertext
CipherLength(ciphertext) == Utf8Length(ciphertext.pt.utf8) + GcmTagBytes

\* subtle.encrypt({name: "AES-GCM", iv}, key, plaintext)
AesGcmEncrypt(key, iv, plaintext) ==
  [key |-> key, iv |-> iv, pt |-> plaintext, delta |-> 0]

\* subtle.decrypt({name: "AES-GCM", iv}, key, ciphertext): [ok, pt];
\* ok = FALSE stands for the OperationError of a failed authentication
AesGcmDecrypt(key, iv, ciphertext) ==
  [ok |-> ciphertext.key = key /\ ciphertext.iv = iv /\ ciphertext.delta = 0,
   pt |-> ciphertext.pt]

(* ---------------------------- keychain.js ------------------------------ *)

\* a faulty #deriveKey: the salt is not given to PBKDF2
deriveKeyNoSalt(password, salt) ==
  [hmacKey |-> HmacKeyBlock(stringToBuffer(password)),
   salt |-> << >>,
   iterations |-> PBKDF2_ITERATIONS]

\* a faulty #deriveKey: the key is derived from the salt alone
deriveKeyNoPassword(password, salt) ==
  [hmacKey |-> HmacKeyBlock(<< >>),
   salt |-> salt,
   iterations |-> PBKDF2_ITERATIONS]

\* Keychain.#deriveKey(password, salt): PBKDF2 with HMAC-SHA-256
deriveKey(password, salt) ==
  [hmacKey |-> HmacKeyBlock(stringToBuffer(password)),
   salt |-> salt,
   iterations |-> PBKDF2_ITERATIONS]

\* new Keychain(salt, encKey): data.salt, secrets.encKey, secrets.vault
Keychain(salt, encKey) ==
  [live |-> TRUE, salt |-> encodeBuffer(salt), encKey |-> encKey,
   vault |-> EmptyObject]

\* no engine (the value before the first init)
NoKeychain ==
  [live |-> FALSE, salt |-> encodeBuffer(<< >>),
   encKey |-> deriveKey(<< >>, << >>), vault |-> EmptyObject]

\* Keychain.init(password), given the salt that getRandomBytes returned
KeychainInit(password, salt) ==
  Keychain(salt, deriveKey(password, salt))

\* the representation string: JSON.stringify({salt, iv, ciphertext}).
\* json = "object": the text is as JSON.stringify writes it; json the name
\* of a field: the first character of the value of that field was replaced
\* by a double quote
ReprString(salt, iv, ciphertext) ==
  [json |-> "object", salt |-> salt, iv |-> iv, ciphertext |-> ciphertext]

\* a representation string that is a text which is not JSON
RawRepr(chars) == [json |-> "raw", chars |-> chars]

\* the number of bytes of the buffer that a field of a representation
\* string encodes
FieldBytes(repr, field) ==
  IF field = "ciphertext" THEN CipherLength(repr.ciphertext.bytes)
  ELSE Len(repr[field].bytes)

\* the position in the representation string of the first character of the
\* value of a field, counted from 0: {"salt":" has 9 characters, ","iv":"
\* has 8 and ","ciphertext":" has 16
FieldPosition(repr, field) ==
  CASE field = "salt" -> 9
    [] field = "iv" -> 9 + Base64Length(FieldBytes(repr, "salt")) + 8
    [] OTHER -> 9 + Base64Length(FieldBytes(repr, "salt")) + 8
                  + Base64Length(FieldBytes(repr, "iv")) + 16

RECURSIVE Decimal(_)
\* the characters of a number
Decimal(n) ==
  IF n < 10 THEN << 48 + n >> ELSE Decimal(n \div 10) \o << 48 + (n % 10) >>

\* the offset of needle in text: text includes needle exactly if there is one
Offsets(text, needle) ==
  { i \in 0..(Len(text) - Len(needle)) :
      SubSeq(text, i + 1, i + Len(needle)) = needle }

\* text.includes(needle)
Includes(text, needle) == Offsets(text, needle) # { }

\* "null", "true" and "false"
JsonLiterals ==
  << << 110, 117, 108, 108 >>, << 116, 114, 117, 101 >>,
     << 102, 97, 108, 115, 101 >> >>

\* the number of characters at the start of text that are the start of
\* literal too
RECURSIVE CommonPrefix(_, _)
CommonPrefix(text, literal) ==
  IF text = << >> \/ literal = << >> \/ Head(text) # Head(literal) THEN 0
  ELSE 1 + CommonPrefix(Tail(text), Tail(literal))

\* "Unexpected token '"
UnexpectedTokenChars ==
  << 85, 110, 101, 120, 112, 101, 99, 116, 101, 100, 32, 116, 111, 107, 101,
    110, 32, 39 >>

\* " is not valid JSON"
IsNotValidJsonChars ==
  << 32, 105, 115, 32, 110, 111, 116, 32, 118, 97, 108, 105, 100, 32, 74,
    83, 79, 78 >>

\* "Unexpected end of JSON input"
UnexpectedEndChars ==
  << 85, 110, 101, 120, 112, 101, 99, 116, 101, 100, 32, 101, 110, 100, 32,
    111, 102, 32, 74, 83, 79, 78, 32, 105, 110, 112, 117, 116 >>

\* "Unexpected non-whitespace character after JSON at position "
AfterJsonChars ==
  << 85, 110, 101, 120, 112, 101, 99, 116, 101, 100, 32, 110, 111, 110, 45,
    119, 104, 105, 116, 101, 115, 112, 97, 99, 101, 32, 99, 104, 97, 114,
    97, 99, 116, 101, 114, 32, 97, 102, 116, 101, 114, 32, 74, 83, 79, 78,
    32, 97, 116, 32, 112, 111, 115, 105, 116, 105, 111, 110, 32 >>

\* "Expected ',' or '}' after property value in JSON at position "
ExpectedCommaChars ==
  << 69, 120, 112, 101, 99, 116, 101, 100, 32, 39, 44, 39, 32, 111, 114, 32,
    39, 125, 39, 32, 97, 102, 116, 101, 114, 32, 112, 114, 111, 112, 101,
    114, 116, 121, 32, 118, 97, 108, 117, 101, 32, 105, 110, 32, 74, 83, 79,
    78, 32, 97, 116, 32, 112, 111, 115, 105, 116, 105, 111, 110, 32 >>

\* "Unexpected number in JSON at position "
UnexpectedNumberChars ==
  << 85, 110, 101, 120, 112, 101, 99, 116, 101, 100, 32, 110, 117, 109, 98,
    101, 114, 32, 105, 110, 32, 74, 83, 79, 78, 32, 97, 116, 32, 112, 111,
    115, 105, 116, 105, 111, 110, 32 >>

\* "Unexpected string in JSON at position "
UnexpectedStringChars ==
  << 85, 110, 101, 120, 112, 101, 99, 116, 101, 100, 32, 115, 116, 114, 105,
    110, 103, 32, 105, 110, 32, 74, 83, 79, 78, 32, 97, 116, 32, 112, 111,
    115, 105, 116, 105, 111, 110, 32 >>

\* the texts for which the message names the whole text, not a token:
\* "NaN", "Infinity", "undefined" and "[object Object]"
SpecialStrings ==
  { << 78, 97, 78 >>,
    << 73, 110, 102, 105, 110, 105, 116, 121 >>,
    << 117, 110, 100, 101, 102, 105, 110, 101, 100 >>,
    << 91, 111, 98, 106, 101, 99, 116, 32, 79, 98, 106, 101, 99, 116, 93 >> }

\* the characters of the source text that a message quotes on each side
\* of an unexpected token
MaxContextCharacters == 10

RECURSIVE SkipWhitespace(_, _)
\* the first position from pos on, counted from 0, that holds no white
\* space, which is tab, line feed, carriage return or space (the length of
\* the text if there is none)
SkipWhitespace(chars, pos) ==
  IF pos < Len(chars) /\ chars[pos + 1] \in { 9, 10, 13, 32 }
  THEN SkipWhitespace(chars, pos + 1)
  ELSE pos

\* the literal that the first character of the text starts (0: none)
LiteralOf(chars) ==
  IF chars # << >>
     /\ \E l \in 1..Len(JsonLiterals) : Head(JsonLiterals[l]) = Head(chars)
  THEN CHOOSE l \in 1..Len(JsonLiterals) : Head(JsonLiterals[l]) = Head(chars)
  ELSE 0

\* the text starts with a whole literal
ReadsLiteral(chars) ==
  /\ LiteralOf(chars) # 0
  /\ CommonPrefix(chars, JsonLiterals[LiteralOf(chars)])
       = Len(JsonLiterals[LiteralOf(chars)])

\* the position, counted from 0, at which the parser stops: a literal is
\* read as far as the text agrees with it, and the white space after a
\* whole literal is skipped
ErrorPosition(chars) ==
  IF LiteralOf(chars) = 0 THEN 0
  ELSE IF ReadsLiteral(chars)
  THEN SkipWhitespace(chars, Len(JsonLiterals[LiteralOf(chars)]))
  ELSE CommonPrefix(chars, JsonLiterals[LiteralOf(chars)])

\* the source text as a message quotes it around the token at pos: a text
\* of fewer than 21 characters whole, a longer one from 10 characters
\* before pos to 10 characters after it, with ... where it was cut
QuotedContext(chars, pos) ==
  LET from == IF pos < MaxContextCharacters THEN 0
              ELSE pos - MaxContextCharacters
      to == IF pos < Len(chars) - MaxContextCharacters
            THEN pos + MaxContextCharacters
            ELSE Len(chars)
      dots == << 46, 46, 46 >>
  IN IF Len(chars) < 2 * MaxContextCharacters + 1
     THEN << 34 >> \o chars \o << 34 >>
     ELSE (IF from > 0 THEN dots ELSE << >>)
            \o << 34 >> \o SubSeq(chars, from + 1, to) \o << 34 >>
            \o (IF to < Len(chars) THEN dots ELSE << >>)

\* the message of the SyntaxError of JSON.parse for a text that is not
\* JSON and starts with a letter (or is empty). At the end of the text the
\* message is that of the end of the input; after a whole literal it is
\* that of a character after JSON; else it depends on the character the
\* parser stops at: one that starts a number, one that starts a string,
\* or any other, for which the message quotes the token and the text.
RawParseMessage(chars) ==
  IF ErrorPosition(chars) = Len(chars) THEN UnexpectedEndChars
  ELSE IF ReadsLiteral(chars)
  THEN AfterJsonChars \o Decimal(ErrorPosition(chars))
  ELSE IF chars[ErrorPosition(chars) + 1] \in { 45 } \cup (48..57)
  THEN UnexpectedNumberChars \o Decimal(ErrorPosition(chars))
  ELSE IF chars[ErrorPosition(chars) + 1] = 34
  THEN UnexpectedStringChars \o Decimal(ErrorPosition(chars))
  ELSE IF chars \in SpecialStrings
  THEN << 34 >> \o chars \o << 34 >> \o IsNotValidJsonChars
  ELSE UnexpectedTokenChars
         \o << chars[ErrorPosition(chars) + 1], 39, 44, 32 >>
         \o QuotedContext(chars, ErrorPosition(chars))
         \o IsNotValidJsonChars

\* the message of the SyntaxError of JSON.parse(repr): for a quote in the
\* place of the first character of a value the string ends there, and the
\* character after it is neither a comma nor a brace
ReprParseMessage(repr) ==
  IF repr.json = "raw" THEN RawParseMessage(repr.chars)
  ELSE ExpectedCommaChars \o Decimal(FieldPosition(repr, repr.json) + 1)

\* "Integrity check failed: Checksum does not match!"
IntegrityMessage ==
  << 73, 110, 116, 101, 103, 114, 105, 116, 121, 32, 99, 104, 101, 99, 107,
    32, 102, 97, 105, 108, 101, 100, 58, 32, 67, 104, 101, 99, 107, 115,
    117, 109, 32, 100, 111, 101, 115, 32, 110, 111, 116, 32, 109, 97, 116,
    99, 104, 33 >>

\* "Failed to decrypt: Invalid password or corrupted data."
DecryptMessage ==
  << 70, 97, 105, 108, 101, 100, 32, 116, 111, 32, 100, 101, 99, 114, 121,
    112, 116, 58, 32, 73, 110, 118, 97, 108, 105, 100, 32, 112, 97, 115,
    115, 119, 111, 114, 100, 32, 111, 114, 32, 99, 111, 114, 114, 117, 112,
    116, 101, 100, 32, 100, 97, 116, 97, 46 >>

\* "The first argument must be of type string or an instance of Buffer,
\* ArrayBuffer, or Array or an Array-like Object. Received undefined"
BufferFromUndefinedMessage ==
  << 84, 104, 101, 32, 102, 105, 114, 115, 116, 32, 97, 114, 103, 117, 109,
    101, 110, 116, 32, 109, 117, 115, 116, 32, 98, 101, 32, 111, 102, 32,
    116, 121, 112, 101, 32, 115, 116, 114, 105, 110, 103, 32, 111, 114, 32,
    97, 110, 32, 105, 110, 115, 116, 97, 110, 99, 101, 32, 111, 102, 32, 66,
    117, 102, 102, 101, 114, 44, 32, 65, 114, 114, 97, 121, 66, 117, 102,
    102, 101, 114, 44, 32, 111, 114, 32, 65, 114, 114, 97, 121, 32, 111,
    114, 32, 97, 110, 32, 65, 114, 114, 97, 121, 45, 108, 105, 107, 101, 32,
    79, 98, 106, 101, 99, 116, 46, 32, 82, 101, 99, 101, 105, 118, 101, 100,
    32, 117, 110, 100, 101, 102, 105, 110, 101, 100 >>

\* error.message of what Keychain.load throws but for a SyntaxError, whose
\* message depends on the text parsed: the two texts of keychain.js, and
\* that of the TypeError of Buffer.from(undefined, 'base64')
ErrorMessage(kind) ==
  CASE kind = "IntegrityError" -> IntegrityMessage
    [] kind = "DecryptionError" -> DecryptMessage
    [] kind = "TypeError" -> BufferFromUndefinedMessage
    [] OTHER -> << >>

\* the checksum of a representation string, as dump and load compute it
Checksum(repr) ==
  [type |-> "string", str |-> "base64",
   digest |-> encodeBuffer(Sha256(textToBuffer(repr)))]

\* a faulty dump: it writes the iv where the salt belongs
DumpIvAsSalt(kc, iv) ==
  LET vaultString == JSONstringify(kc.vault)
      ciphertext == AesGcmEncrypt(kc.encKey, iv, textToBuffer(vaultString))
      reprString == ReprString(encodeBuffer(iv), encodeBuffer(iv),
                               encodeBuffer(ciphertext))
  IN [repr |-> reprString, checksum |-> Checksum(reprString)]

\* a faulty dump: it writes the key block of the password where the salt
\* belongs
DumpKeyAsSalt(kc, iv) ==
  LET vaultString == JSONstringify(kc.vault)
      ciphertext == AesGcmEncrypt(kc.encKey, iv, textToBuffer(vaultString))
      reprString == ReprString(encodeBuffer(kc.encKey.hmacKey),
                               encodeBuffer(iv), encodeBuffer(ciphertext))
  IN [repr |-> reprString, checksum |-> Checksum(reprString)]

\* keychain.dump(), given the iv that getRandomBytes returned:
\* [reprString, checksum]
Dump(kc, iv) ==
  LET vaultString == JSONstringify(kc.vault)
      ciphertext == AesGcmEncrypt(kc.encKey, iv, textToBuffer(vaultString))
      reprString == ReprString(kc.salt, encodeBuffer(iv),
                               encodeBuffer(ciphertext))
  IN [repr |-> reprString, checksum |-> Checksum(reprString)]

\* what a call of Keychain.load ends in: the keychain returned, or the
\* kind and the message of what it throws
Outcome(kind, keychain) ==
  [kind |-> kind, keychain |-> keychain, message |-> ErrorMessage(kind)]

\* the SyntaxError of JSON.parse with its message
SyntaxError(message) ==
  [Outcome("SyntaxError", NoKeychain) EXCEPT !.message = message]

\* a faulty load: it compares the checksum after parsing the representation
LoadChecksLate(password, repr, trustedDataCheck) ==
  IF repr.json # "object" THEN SyntaxError(ReprParseMessage(repr))
  ELSE LET salt == decodeBuffer(repr.salt)
           iv == decodeBuffer(repr.iv)
           ciphertext == decodeBuffer(repr.ciphertext)
       IN IF ~(salt.ok /\ iv.ok /\ ciphertext.ok)
          THEN Outcome("TypeError", NoKeychain)
          ELSE IF Truthy(trustedDataCheck) /\ Checksum(repr) # trustedDataCheck
          THEN Outcome("IntegrityError", NoKeychain)
          ELSE LET encKey == deriveKey(password, salt.bytes)
                   decrypted == AesGcmDecrypt(encKey, iv.bytes, ciphertext.bytes)
               IN IF ~decrypted.ok
                  THEN Outcome("DecryptionError", NoKeychain)
                  ELSE LET vault == JSONparseVault(bufferToString(decrypted.pt))
                       IN IF ~vault.ok
                          THEN SyntaxError(RawParseMessage(
                                 bufferToString(decrypted.pt).chars))
                          ELSE Outcome("engine",
                                 [Keychain(salt.bytes, encKey)
                                    EXCEPT !.vault = vault.value])

\* Keychain.load(password, repr, trustedDataCheck). The two errors the code
\* throws itself are named after their messages: "IntegrityError" is
\* Error("Integrity check failed: ..."), "DecryptionError" is
\* Error("Failed to decrypt: ..."); "SyntaxError" and "TypeError" are the
\* exceptions of JSON.parse and Buffer.from that the code does not catch.
Load(password, repr, trustedDataCheck) ==
  IF Truthy(trustedDataCheck) /\ Checksum(repr) # trustedDataCheck
  THEN Outcome("IntegrityError", NoKeychain)
  ELSE IF repr.json # "object" THEN SyntaxError(ReprParseMessage(repr))
  ELSE LET salt == decodeBuffer(repr.salt)
           iv == decodeBuffer(repr.iv)
           ciphertext == decodeBuffer(repr.ciphertext)
       IN IF ~(salt.ok /\ iv.ok /\ ciphertext.ok)
          THEN Outcome("TypeError", NoKeychain)
          ELSE LET encKey == deriveKey(password, salt.bytes)
                   decrypted == AesGcmDecrypt(encKey, iv.bytes, ciphertext.bytes)
               IN IF ~decrypted.ok
                  THEN Outcome("DecryptionError", NoKeychain)
                  ELSE LET vault == JSONparseVault(bufferToString(decrypted.pt))
                       IN IF ~vault.ok
                          THEN SyntaxError(RawParseMessage(
                                 bufferToString(decrypted.pt).chars))
                          ELSE Outcome("engine",
                                 [Keychain(salt.bytes, encKey)
                                    EXCEPT !.vault = vault.value])

\* the property key vault[name] uses for a name that is no string
\* (ToPropertyKey): the name left out is the key "undefined", a function
\* is the key that is its source text
ToPropertyKey(name) ==
  CASE name.type \in { "string", "boolean" } -> name.str
    [] name.type = "undefined" -> "undefined"
    [] name.type = "null" -> "null"
    [] name.type = "function" -> "function toString() { [native code] }"
    [] OTHER -> "[object Object]"

\* keychain.get(name)
Get(kc, name) ==
  IF Truthy(PropGet(kc.vault, name)) THEN PropGet(kc.vault, name) ELSE JsNull

\* keychain.set(name, value)
Set(kc, name, value) == [kc EXCEPT !.vault = PropSet(kc.vault, name, value)]

\* keychain.remove(name): [kc, ret]
Remove(kc, name) ==
  IF HasProperty(kc.vault, name)
  THEN [kc |-> [kc EXCEPT !.vault = PropDelete(kc.vault, name)], ret |-> JsTrue]
  ELSE [kc |-> kc, ret |-> JsFalse]

(* ------------------------------ server.js ------------------------------ *)

\* error.message.includes("Failed to decrypt")
IncludesFailedToDecrypt(message) == Includes(message, FailedToDecryptChars)

\* what POST /load sends once Keychain.load ended in out: the status and
\* the error text of the body
LoadReply(out) ==
  IF out.kind = "engine"
  THEN [status |-> 200, error |-> << >>]
  ELSE IF IncludesFailedToDecrypt(out.message)
       THEN [status |-> 401, error |-> out.message]
       ELSE [status |-> 500, error |-> out.message]

(* ------------------------ inputs of the harness ------------------------ *)

\* a representation string and a checksum that stand for "none yet"
NoRepr ==
  ReprString(encodeBuffer(<< >>), encodeBuffer(<< >>),
             encodeBuffer(AesGcmEncrypt(NoKeychain.encKey, << >>,
                                        textToBuffer(NotJson))))

\* trustedDataCheck left out of the call
NoCheck == [type |-> "undefined", str |-> "", digest |-> Checksum(NoRepr).digest]
\* the empty string passed as trustedDataCheck
EmptyCheck == [type |-> "string", str |-> "", digest |-> Checksum(NoRepr).digest]
\* the checksum of some other representation string
OtherCheck == Checksum(NoRepr)

\* history of an engine: the password it was made with, the call that made
\* it, and the salt that the init of the vault it holds drew
NoHist == [password |-> << >>, origin |-> << >>, made |-> ""]

\* what the caller keeps of a dump, and of the engine at that moment its
\* vault and its history
NoSealed ==
  [live |-> FALSE, repr |-> NoRepr, checksum |-> OtherCheck,
   vault |-> EmptyObject, hist |-> NoHist]

Sealed(k, h, iv) ==
  [live |-> TRUE, repr |-> Dump(k, iv).repr, checksum |-> Dump(k, iv).checksum,
   vault |-> k.vault, hist |-> [h EXCEPT !.made = ""]]

\* how a representation string was altered before a load
Untouched == [field |-> "none", how |-> "none", pos |-> 0]
Tamper(field, how, pos) == [field |-> field, how |-> how, pos |-> pos]

\* one byte of a buffer of random bytes changed (all its bits flipped)
FlipByte(bytes, i) == [bytes EXCEPT ![i] = 255 - @]

\* the text of buffer b64 with byte i of the buffer changed
FlipIn(field, b64, i) ==
  IF field = "ciphertext"
  THEN [b64 EXCEPT !.bytes.delta = i]
  ELSE [b64 EXCEPT !.bytes = FlipByte(@, i)]

\* the length of the buffer that a field of a representation string
\* encodes is no multiple of 3, so that the last sextet of its base64 text
\* has unused bits
HasSlack(repr, field) == FieldBytes(repr, field) % 3 # 0

\* the representation string repr altered as t says, by someone who knows
\* password when t.how = "plaintext":
\*   byte      byte t.pos of the buffer the field encodes is changed
\*   slack     the last sextet of the field is changed in its unused bits
\*   quote     the first character of the field is replaced by a double
\*             quote
\*   missing   the field is absent from the object
\*   plaintext the ciphertext is a sealing of text t.pos of RawTexts
\*   raw       the string is text t.pos of RawTexts
Altered(repr, t, password) ==
  CASE t.how = "none" -> repr
    [] t.how = "byte" ->
         [repr EXCEPT ![t.field] = FlipIn(t.field, @, t.pos)]
    [] t.how = "slack" ->
         IF HasSlack(repr, t.field)
         THEN [repr EXCEPT ![t.field].slack = 1]
         ELSE repr
    [] t.how = "quote" -> [repr EXCEPT !.json = t.field]
    [] t.how = "missing" -> [repr EXCEPT ![t.field].def = FALSE]
    [] t.how = "plaintext" ->
         [repr EXCEPT !.ciphertext =
            encodeBuffer(AesGcmEncrypt(
              deriveKey(password, decodeBuffer(repr.salt).bytes),
              decodeBuffer(repr.iv).bytes,
              textToBuffer(RawText(RawTexts[t.pos]))))]
    [] t.how = "raw" -> RawRepr(RawTexts[t.pos])

Fields == { "salt", "iv", "ciphertext" }

\* the alterations of a representation string
Tampers(repr) ==
  { Tamper(f, "byte", i) : f \in Fields, i \in 1..MaxFlipPos }
    \cup { Tamper(f, "slack", 0) : f \in { g \in Fields : HasSlack(repr, g) } }
    \cup { Tamper(f, "quote", 0) : f \in Fields }
    \cup { Tamper(f, "missing", 0) : f \in Fields }
    \cup { Tamper("ciphertext", "plaintext", i) : i \in 1..Len(RawTexts) }
    \cup { Tamper("repr", "raw", i) : i \in 1..Len(RawTexts) }

\* vaults that set and remove build, for the specification of load alone
SomeVaults ==
  { EmptyObject,
    PropSet(EmptyObject, "a", JsString("x")),
    PropSet(PropSet(EmptyObject, "toString", JsString("x")), "a", JsString("")) }

(* --------------------------- state machine ----------------------------- *)

VARIABLES
  kc,      \* the engine in use; for the server, activeKeychain
  hist,    \* its history
  sealed,  \* the latest [repr, checksum] a dump of it returned; for the
           \* client, the item 'vaultGuardianVault' of localStorage
  last,    \* the latest call, its arguments and what it returned
  flight,  \* the handlers of the server that await, with the requests
           \* of the page on their way to the server and the responses
           \* on their way to the page
  clientVault,  \* the variable clientVault of the page
  asked    \* how many requests the server has started to await for
           \* callers, and how many the page has sent, so far

vars == << kc, hist, sealed, last, flight, clientVault, asked >>

\* prev: the representation string kept before a dump replaced it
Call(op) ==
  [op |-> op, password |-> << >>, name |-> "", value |-> JsUndefined,
   ret |-> JsUndefined, kind |-> "", check |-> NoCheck, tamper |-> Untouched,
   iv |-> << >>, prev |-> NoRepr, stage |-> "", status |-> 0,
   names |-> << >>, body |-> NoSealed, at |-> NoHist]

Init ==
  /\ kc = NoKeychain
  /\ hist = NoHist
  /\ sealed = NoSealed
  /\ last = Call("start")
  /\ flight = << >>
  /\ clientVault = NoSealed
  /\ asked = 0

\* kc = await Keychain.init(password): a new vault, of which nothing is
\* sealed yet
DoInit(password) ==
  \E salt \in getRandomBytes(SaltBytes) :
    /\ kc' = KeychainInit(password, salt)
    /\ hist' = [password |-> password, origin |-> salt, made |-> "init"]
    /\ sealed' = NoSealed
    /\ last' = [Call("init") EXCEPT !.password = password]
    /\ UNCHANGED << flight, clientVault, asked >>

\* await kc.set(name, value)
DoSet(name, value) ==
  /\ kc.live
  /\ kc' = Set(kc, name, JsString(value))
  /\ last' = [Call("set") EXCEPT !.name = name, !.value = JsString(value)]
  /\ UNCHANGED << hist, sealed, flight, clientVault, asked >>

\* a faulty get: it deletes the entry it has read
DoGetOnce(name) ==
  /\ kc.live
  /\ kc' = Remove(kc, name).kc
  /\ last' = [Call("get") EXCEPT !.name = name, !.ret = Get(kc, name)]
  /\ UNCHANGED << hist, sealed, flight, clientVault, asked >>

\* await kc.get(name)
DoGet(name) ==
  /\ kc.live
  /\ last' = [Call("get") EXCEPT !.name = name, !.ret = Get(kc, name)]
  /\ UNCHANGED << kc, hist, sealed, flight, clientVault, asked >>

\* await kc.remove(name)
DoRemove(name) ==
  /\ kc.live
  /\ kc' = Remove(kc, name).kc
  /\ last' = [Call("remove") EXCEPT !.name = name, !.ret = Remove(kc, name).ret]
  /\ UNCHANGED << hist, sealed, flight, clientVault, asked >>

\* [repr, checksum] = await kc.dump()
DoDump ==
  /\ kc.live
  /\ \E iv \in getRandomBytes(IvBytes) :
       /\ sealed' = Sealed(kc, hist, iv)
       /\ last' = [Call("dump") EXCEPT !.iv = iv, !.prev = sealed.repr]
  /\ UNCHANGED << kc, hist, flight, clientVault, asked >>

\* kc = await Keychain.load(password, repr, trustedDataCheck) on the
\* representation string kept, altered as t says; a call that throws
\* leaves kc as it was
DoLoad(password, t, check) ==
  /\ sealed.live
  /\ LET out == Load(password, Altered(sealed.repr, t, password), check)
     IN /\ kc' = IF out.kind = "engine" THEN out.keychain ELSE kc
        /\ hist' = IF out.kind = "engine"
                   THEN [password |-> password, origin |-> sealed.hist.origin,
                         made |-> "load"]
                   ELSE hist
        /\ last' = [Call("load") EXCEPT !.password = password, !.kind = out.kind,
                                        !.check = check, !.tamper = t]
  /\ UNCHANGED << sealed, flight, clientVault, asked >>

\* a response sent by a handler that did not await
Answer(route, status) ==
  [Call(route) EXCEPT !.stage = "answer", !.status = status]

RemoveAt(seq, i) == SubSeq(seq, 1, i - 1) \o SubSeq(seq, i + 1, Len(seq))

\* flight once the response to request i was sent: i = 0 is the request
\* of a caller that is no page; the response to a page that waits for it
\* is on its way, with its status and, for a dump, its body
Replied(i, status, body) ==
  IF i = 0 THEN flight
  ELSE IF flight[i].page /\ flight[i].heard
  THEN [flight EXCEPT ![i] = [@ EXCEPT !.awaits = "response",
                                       !.status = status, !.body = body]]
  ELSE RemoveAt(flight, i)

\* GET /get-all-names; the handler does not await
GetAllNames(i) ==
  /\ last' = IF ~kc.live
             THEN Answer("GET /get-all-names", 400)
             ELSE [Answer("GET /get-all-names", 200)
                     EXCEPT !.names = ObjectKeys(kc.vault)]
  /\ flight' = Replied(i, IF kc.live THEN 200 ELSE 400, NoSealed)
  /\ UNCHANGED << kc, hist, sealed, clientVault, asked >>

\* the life of a vault: init, set, get, remove, dump, load of the
\* representation kept, as it was dumped, and the listing of its names
Next ==
  \/ \E p \in Passwords : DoInit(p)
  \/ \E w \in Writes : DoSet(w[1], w[2])
  \/ \E n \in Names : DoGet(n)
  \/ \E n \in Names : DoRemove(n)
  \/ DoDump
  \/ \E p \in Passwords, c \in { NoCheck, sealed.checksum } :
       DoLoad(p, Untouched, c)
  \/ GetAllNames(0)

Spec == Init /\ [][Next]_vars

\* Keychain.load as a function of its arguments: a representation sealed by
\* an engine that init, set and remove built, then loaded once: as dumped or
\* altered, with or without a checksum
InitLoad ==
  \E p \in Passwords, salt \in getRandomBytes(SaltBytes),
     iv \in getRandomBytes(IvBytes), v \in SomeVaults :
    /\ kc = [KeychainInit(p, salt) EXCEPT !.vault = v]
    /\ hist = [password |-> p, origin |-> salt, made |-> "init"]
    /\ sealed = Sealed(kc, hist, iv)
    /\ last = [Call("dump") EXCEPT !.iv = iv]
    /\ flight = << >>
    /\ clientVault = NoSealed
    /\ asked = 0

NextLoad ==
  \E p \in Passwords, t \in Tampers(sealed.repr) \cup { Untouched } :
    \E c \in { NoCheck, EmptyCheck, OtherCheck, sealed.checksum,
               Checksum(Altered(sealed.repr, t, p)) } :
      /\ last.op = "dump"
      /\ DoLoad(p, t, c)

LoadSpec == InitLoad /\ [][NextLoad]_vars

(* ------------------------ the server's handlers ------------------------ *)

\* A handler runs without interruption up to an await; there any other
\* handler may run before it goes on. keychain.set, get and remove have run
\* to their end when they return their promise, so the handler that awaits
\* one of them has read or changed the vault, and goes on later. dump
\* serializes the entries and draws its iv before its first await, so what
\* it will return is settled when it is called.

\* the handlers that await at a time, and the requests that a behaviour
\* lets the server start to await
MaxInFlight == 2
MaxAsked == 3

Master == << 112 >>
Other == << 113 >>
NoPassword == << >>

\* a body of POST /load that carries no repr
Absent == Tamper("repr", "absent", 0)

\* a request with its handler, as flight holds it. awaits "request": the
\* page has sent it and it has not reached the server; "init" is
\* Keychain.init of POST /init, "load" is Keychain.load of POST /load,
\* "set", "get" and "remove" are these functions of activeKeychain, "dump"
\* is activeKeychain.dump(); "response": the server has sent the response
\* with this status and it has not reached the page. out is what
\* Keychain.load will end in, ret what get or remove returned, body what
\* dump will return (for a load by the page: what the page had read from
\* localStorage), at the history of the keychain that was active when the
\* handler started, page whether the page sent the request, heard whether
\* the one who sent it still waits for the response
Handler(route, awaits, page) ==
  [route |-> route, awaits |-> awaits, page |-> page, heard |-> TRUE,
   password |-> << >>,
   salt |-> << >>, out |-> Outcome("", NoKeychain), body |-> NoSealed,
   name |-> "", value |-> JsUndefined, ret |-> JsUndefined, at |-> NoHist,
   status |-> 0]

\* the handler that starts for request i: i = 0 is the request of a caller
\* that is no page, else it is the request flight[i] of the page
Started(route, awaits, i) ==
  IF i = 0 THEN Handler(route, awaits, FALSE)
  ELSE [Handler(route, awaits, TRUE) EXCEPT !.heard = flight[i].heard]

\* flight once the handler h of request i awaits
Await(i, h) == IF i = 0 THEN Append(flight, h) ELSE [flight EXCEPT ![i] = h]

\* the handler of request i starts within the bounds and is counted: a
\* request of the page was counted when the page sent it
Counted(i) ==
  IF i = 0
  THEN Len(flight) < MaxInFlight /\ asked < MaxAsked /\ asked' = asked + 1
  ELSE asked' = asked

\* a handler that starts to await
Accept(route) == [Call(route) EXCEPT !.stage = "accept"]

\* POST /init {password}
PostInit(password, i) ==
  IF password = NoPassword
  THEN /\ last' = Answer("POST /init", 400)
       /\ flight' = Replied(i, 400, NoSealed)
       /\ UNCHANGED << kc, hist, sealed, clientVault, asked >>
  ELSE /\ Counted(i)
       /\ \E salt \in getRandomBytes(SaltBytes) :
            flight' = Await(i, [Started("POST /init", "init", i)
                                  EXCEPT !.password = password,
                                         !.salt = salt])
       /\ last' = Accept("POST /init")
       /\ UNCHANGED << kc, hist, sealed, clientVault >>

\* POST /init once Keychain.init has returned: activeKeychain is assigned
\* and its dump called
InitResume(i) ==
  /\ i \in 1..Len(flight)
  /\ flight[i].awaits = "init"
  /\ \E iv \in getRandomBytes(IvBytes) :
       LET h == flight[i]
           k == KeychainInit(h.password, h.salt)
           made == [password |-> h.password, origin |-> h.salt,
                    made |-> "init"]
       IN /\ kc' = k
          /\ hist' = made
          /\ flight' = [flight EXCEPT ![i] =
                          [h EXCEPT !.awaits = "dump",
                                    !.body = Sealed(k, made, iv),
                                    !.at = made]]
  /\ last' = [Call("POST /init") EXCEPT !.stage = "resume"]
  /\ UNCHANGED << sealed, clientVault, asked >>

\* POST /init, /set or /remove once dump has returned: {repr, checksum} is
\* sent. A caller that is no page keeps it as it gets it; what the page
\* does with it is the step Receive of the page
Send(i) ==
  /\ i \in 1..Len(flight)
  /\ flight[i].awaits = "dump"
  /\ LET h == flight[i]
     IN /\ last' = [Call(h.route) EXCEPT
                      !.stage = "send",
                      !.status = IF h.route = "POST /init" THEN 201 ELSE 200,
                      !.name = h.name, !.value = h.value,
                      !.body = h.body, !.at = h.at]
        /\ sealed' = IF h.page THEN sealed ELSE h.body
        /\ flight' = Replied(i, IF h.route = "POST /init" THEN 201 ELSE 200,
                             h.body)
  /\ UNCHANGED << kc, hist, clientVault, asked >>

\* the [repr, checksum] that the body of a POST /load is made of: what the
\* caller has kept, or what the page had read from localStorage when it
\* sent request i
Given(i) == IF i = 0 THEN sealed ELSE flight[i].body

\* POST /load {password, repr, trustedDataCheck}, with the representation
\* altered as t says
PostLoad(password, t, check, i) ==
  IF password = NoPassword \/ t = Absent
  THEN /\ last' = Answer("POST /load", 400)
       /\ flight' = Replied(i, 400, NoSealed)
       /\ UNCHANGED << kc, hist, sealed, clientVault, asked >>
  ELSE /\ Given(i).live
       /\ Counted(i)
       /\ flight' = Await(i, [Started("POST /load", "load", i)
                                EXCEPT !.password = password,
                                       !.out = Load(password,
                                                 Altered(Given(i).repr, t,
                                                         password),
                                                 check),
                                       !.body = IF i = 0 THEN NoSealed
                                                ELSE Given(i)])
       /\ last' = Accept("POST /load")
       /\ UNCHANGED << kc, hist, sealed, clientVault >>

\* a faulty handler: when Keychain.load has thrown, it sets activeKeychain
\* to null
LoadResumeForgets(i) ==
  /\ i \in 1..Len(flight)
  /\ flight[i].awaits = "load"
  /\ LET h == flight[i]
         ok == h.out.kind = "engine"
     IN /\ kc' = IF ok THEN h.out.keychain ELSE NoKeychain
        /\ hist' = IF ok
                   THEN [password |-> h.password,
                         origin |-> decodeBuffer(h.out.keychain.salt).bytes,
                         made |-> "load"]
                   ELSE NoHist
        /\ last' = [Call("POST /load") EXCEPT
                      !.stage = "send", !.kind = h.out.kind,
                      !.password = h.password,
                      !.status = LoadReply(h.out).status]
        /\ flight' = Replied(i, LoadReply(h.out).status, h.body)
  /\ UNCHANGED << sealed, clientVault, asked >>

\* POST /load once Keychain.load has returned or thrown: activeKeychain is
\* assigned if it returned, and the response is sent
LoadResume(i) ==
  /\ i \in 1..Len(flight)
  /\ flight[i].awaits = "load"
  /\ LET h == flight[i]
         ok == h.out.kind = "engine"
     IN /\ kc' = IF ok THEN h.out.keychain ELSE kc
        /\ hist' = IF ok
                   THEN [password |-> h.password,
                         origin |-> decodeBuffer(h.out.keychain.salt).bytes,
                         made |-> "load"]
                   ELSE hist
        /\ last' = [Call("POST /load") EXCEPT
                      !.stage = "send", !.kind = h.out.kind,
                      !.password = h.password,
                      !.status = LoadReply(h.out).status]
        /\ flight' = Replied(i, LoadReply(h.out).status, h.body)
  /\ UNCHANGED << sealed, clientVault, asked >>

\* a faulty handler: it does not test activeKeychain, and reading the
\* vault of null throws
GetValueUnguarded(name, i) ==
  IF ~kc.live
  THEN /\ last' = Answer("GET /get", 500)
       /\ flight' = Replied(i, 500, NoSealed)
       /\ UNCHANGED << kc, hist, sealed, clientVault, asked >>
  ELSE IF ~Truthy(name)
  THEN /\ last' = Answer("GET /get", 400)
       /\ flight' = Replied(i, 400, NoSealed)
       /\ UNCHANGED << kc, hist, sealed, clientVault, asked >>
  ELSE /\ Counted(i)
       /\ flight' = Await(i, [Started("GET /get", "get", i)
                                EXCEPT !.name = ToPropertyKey(name),
                                       !.ret = Get(kc, ToPropertyKey(name)),
                                       !.at = hist])
       /\ last' = Accept("GET /get")
       /\ UNCHANGED << kc, hist, sealed, clientVault >>

\* GET /get?name=: the checks and the call of activeKeychain.get(name)
GetValue(name, i) ==
  IF ~kc.live \/ ~Truthy(name)
  THEN /\ last' = Answer("GET /get", 400)
       /\ flight' = Replied(i, 400, NoSealed)
       /\ UNCHANGED << kc, hist, sealed, clientVault, asked >>
  ELSE /\ Counted(i)
       /\ flight' = Await(i, [Started("GET /get", "get", i)
                                EXCEPT !.name = ToPropertyKey(name),
                                       !.ret = Get(kc, ToPropertyKey(name)),
                                       !.at = hist])
       /\ last' = Accept("GET /get")
       /\ UNCHANGED << kc, hist, sealed, clientVault >>

\* GET /get once the await of get has returned: the value read then is
\* sent, or 404 for null
GetResume(i) ==
  /\ i \in 1..Len(flight)
  /\ flight[i].awaits = "get"
  /\ LET h == flight[i]
     IN /\ last' = [Call("GET /get") EXCEPT
                      !.stage = "send",
                      !.status = IF h.ret = JsNull THEN 404 ELSE 200,
                      !.name = h.name, !.ret = h.ret, !.at = h.at]
        /\ flight' = Replied(i, IF h.ret = JsNull THEN 404 ELSE 200,
                             NoSealed)
  /\ UNCHANGED << kc, hist, sealed, clientVault, asked >>

\* POST /set {name, value}: the checks and the call of
\* activeKeychain.set(name, value)
PostSet(name, value, i) ==
  IF ~kc.live \/ ~Truthy(name) \/ value = JsUndefined
  THEN /\ last' = Answer("POST /set", 400)
       /\ flight' = Replied(i, 400, NoSealed)
       /\ UNCHANGED << kc, hist, sealed, clientVault, asked >>
  ELSE /\ Counted(i)
       /\ kc' = Set(kc, ToPropertyKey(name), value)
       /\ flight' = Await(i, [Started("POST /set", "set", i)
                                EXCEPT !.name = ToPropertyKey(name),
                                       !.value = value, !.at = hist])
       /\ last' = Accept("POST /set")
       /\ UNCHANGED << hist, sealed, clientVault >>

\* POST /set once the await of set has returned: the dump of the keychain
\* that is active now is called
SetResume(i) ==
  /\ i \in 1..Len(flight)
  /\ flight[i].awaits = "set"
  /\ \E iv \in getRandomBytes(IvBytes) :
       flight' = [flight EXCEPT ![i] =
                    [@ EXCEPT !.awaits = "dump",
                              !.body = Sealed(kc, hist, iv)]]
  /\ last' = [Call("POST /set") EXCEPT !.stage = "resume"]
  /\ UNCHANGED << kc, hist, sealed, clientVault, asked >>

\* POST /remove {name}: the checks and the call of
\* activeKeychain.remove(name)
PostRemove(name, i) ==
  IF ~kc.live \/ ~Truthy(name)
  THEN /\ last' = Answer("POST /remove", 400)
       /\ flight' = Replied(i, 400, NoSealed)
       /\ UNCHANGED << kc, hist, sealed, clientVault, asked >>
  ELSE /\ Counted(i)
       /\ kc' = Remove(kc, ToPropertyKey(name)).kc
       /\ flight' = Await(i, [Started("POST /remove", "remove", i)
                                EXCEPT !.name = ToPropertyKey(name),
                                       !.ret = Remove(kc,
                                                 ToPropertyKey(name)).ret,
                                       !.at = hist])
       /\ last' = Accept("POST /remove")
       /\ UNCHANGED << hist, sealed, clientVault >>

\* POST /remove once the await of remove has returned: 404 is sent if it
\* returned false, else the dump of the keychain that is active now is
\* called
RemoveResume(i) ==
  /\ i \in 1..Len(flight)
  /\ flight[i].awaits = "remove"
  /\ IF flight[i].ret = JsFalse
     THEN /\ last' = [Call("POST /remove") EXCEPT
                        !.stage = "send", !.status = 404,
                        !.name = flight[i].name, !.at = flight[i].at]
          /\ flight' = Replied(i, 404, NoSealed)
     ELSE /\ \E iv \in getRandomBytes(IvBytes) :
               flight' = [flight EXCEPT ![i] =
                            [@ EXCEPT !.awaits = "dump",
                                      !.body = Sealed(kc, hist, iv)]]
          /\ last' = [Call("POST /remove") EXCEPT !.stage = "resume"]
  /\ UNCHANGED << kc, hist, sealed, clientVault, asked >>

\* the names and the writes that callers of the server send; JsUndefined is
\* a member left out of the body
ServerNames == { JsString("a"), JsUndefined }
ServerWrites ==
  { << JsString("a"), JsString("x") >>,
    << JsString("__proto__"), JsString("x") >>,
    << JsString("__proto__"), JsNull >>,
    << JsUndefined, JsString("x") >>,
    << JsString("a"), JsUndefined >> }

\* the server under requests of any callers, who keep the representation
\* that the latest response carried
NextServer ==
  \/ \E p \in { Master, NoPassword } : PostInit(p, 0)
  \/ \E p \in { Master, Other, NoPassword },
        t \in { Untouched, Absent, Tamper("iv", "quote", 0),
              Tamper("repr", "raw", 2) },
        c \in { NoCheck, OtherCheck } : PostLoad(p, t, c, 0)
  \/ GetAllNames(0)
  \/ \E n \in ServerNames : GetValue(n, 0)
  \/ \E w \in ServerWrites : PostSet(w[1], w[2], 0)
  \/ \E n \in ServerNames : PostRemove(n, 0)
  \/ \E i \in 1..MaxInFlight : InitResume(i)
  \/ \E i \in 1..MaxInFlight : LoadResume(i)
  \/ \E i \in 1..MaxInFlight : GetResume(i)
  \/ \E i \in 1..MaxInFlight : SetResume(i)
  \/ \E i \in 1..MaxInFlight : RemoveResume(i)
  \/ \E i \in 1..MaxInFlight : Send(i)

\* the server starts without a keychain; a caller may have kept a
\* representation that an earlier run of the server returned
InitServer ==
  /\ kc = NoKeychain
  /\ hist = NoHist
  /\ \/ sealed = NoSealed
     \/ \E salt \in getRandomBytes(SaltBytes), iv \in getRandomBytes(IvBytes) :
          sealed = Sealed(Set(KeychainInit(Master, salt), "a", JsString("x")),
                          [password |-> Master, origin |-> salt, made |-> ""],
                          iv)
  /\ last = Call("start")
  /\ flight = << >>
  /\ clientVault = NoSealed
  /\ asked = 0

ServerSpec == InitServer /\ [][NextServer]_vars

(* ------------------------------ the page ------------------------------- *)

\* A function of the page runs without interruption up to its await of
\* fetch and goes on when the response has come; in between the request
\* travels, the handler of the server runs and awaits, and the response
\* travels, while other functions of the page and other handlers run. The
\* page reads the body of a response (await response.json()) and writes
\* localStorage and clientVault in one step: what it does before the body
\* is read changes nothing.

\* fetch(route, ...): the request h leaves the page
Fetch(h) ==
  /\ Len(flight) < MaxInFlight
  /\ asked < MaxAsked
  /\ asked' = asked + 1
  /\ flight' = Append(flight, h)

\* a request of the page on its way to the server
Request(route) == Handler(route, "request", TRUE)

\* loadOrCreateVault(), with the password typed at the prompt (a prompt
\* left empty ends the function): it sends POST /load of the item of
\* localStorage with its checksum, or POST /init if there is no item. It
\* runs when the page was loaded and when Add is clicked while clientVault
\* is null
loadOrCreateVault(password) ==
  /\ ~clientVault.live
  /\ password # NoPassword
  /\ Fetch(IF sealed.live
           THEN [Request("POST /load") EXCEPT !.password = password,
                                              !.body = sealed]
           ELSE [Request("POST /init") EXCEPT !.password = password])
  /\ last' = [Call("loadOrCreateVault") EXCEPT !.password = password]
  /\ UNCHANGED << kc, hist, sealed, clientVault >>

\* handleAddPassword(), with the name and the value typed at the prompts,
\* while clientVault is not null: it sends POST /set
handleAddPassword(name, value) ==
  /\ clientVault.live
  /\ name # "" /\ value # ""
  /\ Fetch([Request("POST /set") EXCEPT !.name = name,
                                        !.value = JsString(value)])
  /\ last' = [Call("handleAddPassword") EXCEPT !.name = name,
                                               !.value = JsString(value)]
  /\ UNCHANGED << kc, hist, sealed, clientVault >>

\* handleViewPassword(name), from the card of a name: it sends GET /get
handleViewPassword(name) ==
  /\ Fetch([Request("GET /get") EXCEPT !.name = name])
  /\ last' = [Call("handleViewPassword") EXCEPT !.name = name]
  /\ UNCHANGED << kc, hist, sealed, clientVault >>

\* handleRemovePassword(name), from the card of a name, confirmed: it
\* sends POST /remove
handleRemovePassword(name) ==
  /\ Fetch([Request("POST /remove") EXCEPT !.name = name])
  /\ last' = [Call("handleRemovePassword") EXCEPT !.name = name]
  /\ UNCHANGED << kc, hist, sealed, clientVault >>

\* a request of the page reaches the server, and its handler starts
Arrive(i) ==
  /\ i \in 1..Len(flight)
  /\ flight[i].awaits = "request"
  /\ \/ /\ flight[i].route = "POST /init"
        /\ PostInit(flight[i].password, i)
     \/ /\ flight[i].route = "POST /load"
        /\ PostLoad(flight[i].password, Untouched, flight[i].body.checksum, i)
     \/ /\ flight[i].route = "GET /get-all-names"
        /\ GetAllNames(i)
     \/ /\ flight[i].route = "GET /get"
        /\ GetValue(JsString(flight[i].name), i)
     \/ /\ flight[i].route = "POST /set"
        /\ PostSet(JsString(flight[i].name), flight[i].value, i)
     \/ /\ flight[i].route = "POST /remove"
        /\ PostRemove(JsString(flight[i].name), i)

\* the function of the page that awaited the response goes on. After a
\* POST /init, /set or /remove that is ok it writes {repr, checksum} of the
\* body to localStorage and to clientVault; after a POST /load that is ok
\* it sets clientVault to what it had read from localStorage; after any
\* other response it changes nothing. After a POST /load or /remove that
\* is ok it calls fetchAndRenderAllPasswords(), which sends
\* GET /get-all-names as clientVault is not null then
Receive(i) ==
  /\ i \in 1..Len(flight)
  /\ flight[i].awaits = "response"
  /\ LET h == flight[i]
         ok == h.status \in 200..299
         dumped == ok /\ h.route \in { "POST /init", "POST /set",
                                       "POST /remove" }
         loaded == ok /\ h.route = "POST /load"
         lists == ok /\ h.route \in { "POST /load", "POST /remove" }
     IN /\ sealed' = IF dumped THEN h.body ELSE sealed
        /\ clientVault' = IF dumped \/ loaded THEN h.body ELSE clientVault
        /\ flight' = IF lists
                     THEN [flight EXCEPT ![i] = Request("GET /get-all-names")]
                     ELSE RemoveAt(flight, i)
        /\ last' = [Call(h.route) EXCEPT !.stage = "receive",
                                         !.status = h.status]
  /\ UNCHANGED << kc, hist, asked >>

\* the page is loaded anew: the script starts again with clientVault null,
\* localStorage stays. The responses on their way reach no page; the
\* requests on their way and the handlers of the server that await go on,
\* and what they send reaches no one
Reload ==
  /\ clientVault' = NoSealed
  /\ flight' = LET kept == SelectSeq(flight, LAMBDA h : h.awaits # "response")
               IN [i \in 1..Len(kept) |->
                     [kept[i] EXCEPT !.heard = ~kept[i].page]]
  /\ last' = Call("reload")
  /\ UNCHANGED << kc, hist, sealed, asked >>

\* a request that the page sent before it was loaded anew does not reach
\* the server
Abort(i) ==
  /\ i \in 1..Len(flight)
  /\ flight[i].awaits = "request"
  /\ ~flight[i].heard
  /\ flight' = RemoveAt(flight, i)
  /\ last' = [Call(flight[i].route) EXCEPT !.stage = "abort"]
  /\ UNCHANGED << kc, hist, sealed, clientVault, asked >>

\* the names and values typed into the page, and the names of the cards
ClientWrites == { << "a", "x" >>, << "1", "x" >> }
ClientNames == { "a" }

\* one page and the server: the requests are those of the page
NextClient ==
  \/ \E p \in { Master, Other } : loadOrCreateVault(p)
  \/ \E w \in ClientWrites : handleAddPassword(w[1], w[2])
  \/ \E n \in ClientNames : handleViewPassword(n)
  \/ \E n \in ClientNames : handleRemovePassword(n)
  \/ Reload
  \/ \E i \in 1..MaxInFlight : Abort(i)
  \/ \E i \in 1..MaxInFlight : Arrive(i)
  \/ \E i \in 1..MaxInFlight : InitResume(i)
  \/ \E i \in 1..MaxInFlight : LoadResume(i)
  \/ \E i \in 1..MaxInFlight : GetResume(i)
  \/ \E i \in 1..MaxInFlight : SetResume(i)
  \/ \E i \in 1..MaxInFlight : RemoveResume(i)
  \/ \E i \in 1..MaxInFlight : Send(i)
  \/ \E i \in 1..MaxInFlight : Receive(i)

ClientSpec == InitServer /\ [][NextClient]_vars

(* ------------------------------ claims --------------------------------- *)

\* what load returns for the representation kept, as it was dumped
Opened(password, check) == Load(password, sealed.repr, check)

\* C1 (round trip): whatever set and remove did before, the representation
\* a dump returned loads with the engine's password, without and with the
\* checksum of that dump, into an engine whose entries are the entries at
\* the moment of the dump.
C1_RoundTrip ==
  sealed.live =>
    \A c \in { NoCheck, sealed.checksum } :
      /\ Opened(sealed.hist.password, c).kind = "engine"
      /\ Entries(Opened(sealed.hist.password, c).keychain.vault)
           = Entries(sealed.vault)

C1_Witness ==
  /\ last.op = "load" /\ last.kind = "engine"
  /\ last.password = sealed.hist.password
  /\ last.check = sealed.checksum
  /\ Len(sealed.vault.own) = 2
  /\ \E i \in 1..2 : sealed.vault.own[i].value = JsString("")
  /\ Entries(kc.vault) = Entries(sealed.vault)

\* C2 (wrong password rejection, as claimed): a load of a dumped
\* representation with any password other than the engine's, with or without
\* the matching checksum, ends in DecryptionError.
C2_AnyOtherPasswordRejected ==
  sealed.live =>
    \A q \in Passwords \ { sealed.hist.password } :
      \A c \in { NoCheck, sealed.checksum } :
        Opened(q, c).kind = "DecryptionError"

\* the HMAC key blocks of two passwords differ
KeyBlocksDiffer(p, q) ==
  HmacKeyBlock(stringToBuffer(p)) # HmacKeyBlock(stringToBuffer(q))

\* C2 (as amended): a load of a dumped representation with a password whose
\* HMAC key block differs from that of the engine's password, with or
\* without the matching checksum, ends in DecryptionError.
C2_OtherKeyBlockRejected ==
  sealed.live =>
    \A q \in Passwords :
      KeyBlocksDiffer(q, sealed.hist.password) =>
        \A c \in { NoCheck, sealed.checksum } :
          Opened(q, c).kind = "DecryptionError"

C2_Witness ==
  /\ last.op = "load" /\ last.kind = "DecryptionError"
  /\ last.check = sealed.checksum
  /\ last.password # sealed.hist.password
  /\ KeyBlocksDiffer(last.password, sealed.hist.password)
  /\ kc.live /\ Len(sealed.vault.own) > 0

\* the latest call was a load of the representation kept with one byte of
\* one field changed, the engine's password and no checksum
TamperedLoad ==
  /\ last.op = "load"
  /\ last.password = sealed.hist.password
  /\ last.check = NoCheck

\* C3 (tamper detection, as claimed): with any single byte of the salt, iv
\* or ciphertext field of a dumped representation changed, a load with the
\* engine's password and no checksum ends in DecryptionError.
C3_AnyFieldByteDetected ==
  (TamperedLoad /\ last.tamper.how \in { "byte", "slack", "quote" })
    => last.kind = "DecryptionError"

\* C3 (as amended): with any single byte of the salt, iv or ciphertext
\* buffer that a field encodes changed, a load with the engine's password
\* and no checksum ends in DecryptionError.
C3_BufferByteDetected ==
  (TamperedLoad /\ last.tamper.how = "byte") => last.kind = "DecryptionError"

C3_Witness ==
  /\ TamperedLoad
  /\ last.tamper = Tamper("salt", "byte", MaxFlipPos)
  /\ last.kind = "DecryptionError"
  /\ Len(sealed.vault.own) = 2

\* the representation string the latest load was given
GivenRepr == Altered(sealed.repr, last.tamper, last.password)

\* C4 (checksum detection and ordering, as claimed): a load given an
\* expected checksum that differs from the digest of the representation
\* string ends in IntegrityError, whatever the password and whether or not
\* the representation is well formed.
C4_AnyMismatchIsIntegrityError ==
  (last.op = "load" /\ last.check.type = "string"
     /\ last.check # Checksum(GivenRepr))
    => last.kind = "IntegrityError"

\* C4 (as amended): the same for an expected checksum that is not the empty
\* string.
C4_MismatchIsIntegrityError ==
  (last.op = "load" /\ last.check.type = "string" /\ last.check.str # ""
     /\ last.check # Checksum(GivenRepr))
    => last.kind = "IntegrityError"

C4_Witness ==
  /\ last.op = "load" /\ last.kind = "IntegrityError"
  /\ last.tamper = Tamper("iv", "quote", 0)
  /\ last.check = sealed.checksum
  /\ last.password # sealed.hist.password

\* the latest call was a dump, and the representation kept before it was
\* made by an earlier dump of the same vault (under the same key)
SecondDump == last.op = "dump" /\ last.prev # NoRepr

\* C6 (salt stability): the salt of the engine and of every representation
\* dumped is the salt drawn by the init of the vault, after any set, remove
\* and dump and after any load of a dump of it.
C6_SaltStable ==
  /\ kc.live => kc.salt = encodeBuffer(hist.origin)
  /\ sealed.live => sealed.repr.salt = encodeBuffer(sealed.hist.origin)
  /\ (kc.live /\ sealed.live) => sealed.hist.origin = hist.origin

C6_Witness ==
  /\ last.op = "dump" /\ last.prev # NoRepr
  /\ hist.made = "load"
  /\ hist.origin = [i \in 1..SaltBytes |-> 1]
  /\ Len(kc.vault.own) > 0
  /\ sealed.repr.salt = encodeBuffer(hist.origin)

\* C7 (get): get(name) returns the value of the entry of name when there is
\* one, whatever string it is, and null when there is none.
C7_GetReturnsEntry ==
  last.op = "get" =>
    last.ret = IF last.name \in OwnNames(kc.vault)
               THEN Entries(kc.vault)[last.name]
               ELSE JsNull

\* C8 (set): a set makes value the entry of name and changes no other
\* entry, nor the salt, nor the key, nor the representation kept, which
\* still opens to the entries of its dump.
C8_SetChangesOneEntry ==
  [][last'.op = "set" =>
       /\ Entries(kc'.vault)
            = [n \in OwnNames(kc.vault) \cup { last'.name } |->
                 IF n = last'.name THEN last'.value ELSE Entries(kc.vault)[n]]
       /\ kc'.salt = kc.salt /\ kc'.encKey = kc.encKey
       /\ sealed' = sealed
       /\ sealed.live =>
            Entries(Load(sealed.hist.password, sealed'.repr, NoCheck).keychain.vault)
              = Entries(sealed.vault)]_vars

\* C9 (remove): a remove of a name that has an entry returns true and
\* deletes that entry alone; a remove of a name that has none returns false
\* and changes nothing; a second remove of the same name returns false.
C9_RemoveReportsPresence ==
  [][last'.op = "remove" =>
       /\ kc'.salt = kc.salt /\ kc'.encKey = kc.encKey /\ sealed' = sealed
       /\ IF last'.name \in OwnNames(kc.vault)
          THEN /\ last'.ret = JsTrue
               /\ Entries(kc'.vault)
                    = [n \in OwnNames(kc.vault) \ { last'.name } |->
                         Entries(kc.vault)[n]]
          ELSE last'.ret = JsFalse /\ kc' = kc
       /\ (last.op = "remove" /\ last.name = last'.name) => last'.ret = JsFalse]_vars

\* C10 (outcomes of load): a load, whatever its password, representation
\* string and checksum, ends in an engine, in IntegrityError or in
\* DecryptionError.
C10_LoadOutcomes ==
  last.op = "load" => last.kind \in { "engine", "IntegrityError", "DecryptionError" }

\* C11 (no password-or-corruption oracle): a load, with the engine's
\* password and no checksum, of an altered copy of a dumped representation
\* ends as a load of the copy as dumped does with a wrong password: the
\* same kind of error from Keychain.load, the same status and error text
\* from POST /load.
C11_NoOracle ==
  (TamperedLoad /\ last.tamper # Untouched) =>
    \A q \in Passwords :
      KeyBlocksDiffer(q, sealed.hist.password) =>
        /\ last.kind = Opened(q, NoCheck).kind
        /\ LoadReply(Load(last.password, GivenRepr, NoCheck))
             = LoadReply(Opened(q, NoCheck))

\* C12 (no key in a sealed representation): whatever was done before, the
\* string a dump returned is the serialization of an object with the three
\* members salt, iv and ciphertext and no other: the salt drawn at init, an
\* iv of 12 bytes, and the encryption of the serialized entries alone; no
\* member holds the key block of the password, and the checksum is the
\* digest of that string, returned next to it.
C12_ReprIsSaltIvCiphertext ==
  sealed.live =>
    LET salt == decodeBuffer(sealed.repr.salt)
        iv == decodeBuffer(sealed.repr.iv)
        ciphertext == decodeBuffer(sealed.repr.ciphertext)
        block == HmacKeyBlock(stringToBuffer(sealed.hist.password))
    IN /\ sealed.repr.json = "object"
       /\ DOMAIN sealed.repr = { "json" } \cup Fields
       /\ salt.ok /\ iv.ok /\ ciphertext.ok
       /\ salt.bytes = sealed.hist.origin /\ Len(salt.bytes) = SaltBytes
       /\ Len(iv.bytes) = IvBytes
       /\ salt.bytes # block /\ iv.bytes # block
       /\ ciphertext.bytes.pt = textToBuffer(JSONstringify(sealed.vault))
       /\ sealed.checksum = Checksum(sealed.repr)

C12_Witness ==
  /\ SecondDump
  /\ hist.made = "load"
  /\ Len(sealed.vault.own) = 2
  /\ Len(decodeBuffer(sealed.repr.salt).bytes) = SaltBytes

\* C13 (InvalidInput): a write with the name left out is rejected: whatever
\* the value, keychain.set(undefined, value) leaves the entries, the salt
\* and the key of the engine as they were.
C13_MissingNameRejected ==
  kc.live =>
    \A w \in Writes :
      Set(kc, ToPropertyKey(JsUndefined), JsString(w[2])) = kc

\* C14 (listing of names): whatever init, load, set and remove did before,
\* a GET /get-all-names answered 200 carries the names that have an entry,
\* each once, and leaves the entries, the salt and the key as they were.
C14_NamesAreTheEntries ==
  [][(last'.op = "GET /get-all-names" /\ last'.status = 200) =>
       /\ { last'.names[i] : i \in 1..Len(last'.names) } = OwnNames(kc.vault)
       /\ Len(last'.names) = Cardinality(OwnNames(kc.vault))
       /\ kc' = kc /\ hist' = hist]_vars

C14_Witness ==
  /\ last.op = "GET /get-all-names" /\ last.status = 200
  /\ Len(last.names) = 2
  /\ hist.made = "load"
  /\ \E i \in 1..2 : kc.vault.own[i].value = JsString("")

\* C16 (read-only operations): a get, a dump and a listing of the names
\* leave the entries, the salt and the key of the engine as they were; a
\* step that changes the entries is a set or a remove, or an init or a load
\* that puts another engine in use.
C16_ReadsChangeNothing ==
  [][/\ last'.op \in { "get", "dump", "GET /get-all-names" } =>
          kc' = kc /\ hist' = hist
     /\ kc'.vault # kc.vault => last'.op \in { "set", "remove", "init", "load" }
     /\ (kc'.salt # kc.salt \/ kc'.encKey # kc.encKey) =>
          last'.op \in { "init", "load" }]_vars

C16_Witness ==
  /\ last.op = "get" /\ last.ret = JsString("x")
  /\ Len(kc.vault.own) = 2
  /\ sealed.live /\ sealed.vault # kc.vault

\* C15 (failures are scoped to the call): a POST /load or POST /init that
\* fails (400 for a missing input, 401 for a wrong password, 500 for a
\* checksum that does not match or a malformed representation) leaves the
\* active keychain the one it was, with its entries, salt and key.
C15_FailedLoadKeepsActive ==
  [][(/\ last'.op \in { "POST /load", "POST /init" }
      /\ last'.status \in { 400, 401, 500 })
       => kc' = kc /\ hist' = hist]_vars

C15_Witness ==
  /\ last.op = "POST /load" /\ last.status = 500
  /\ last.kind = "IntegrityError"
  /\ kc.live /\ Len(kc.vault.own) = 1
  /\ flight = << >>

\* C17 (responses under interleaving): however the handlers of /init,
\* /load, /set and /remove interleave, the representation that a POST /set
\* answered 200 carries was sealed by the keychain that was active when the
\* request came and, opened with that keychain's password, has the written
\* value under the written name; the one that a POST /remove answered 200
\* carries is of that keychain too and has no entry of the removed name.
C17_ResponseSealsTheWrite ==
  (/\ last.stage = "send" /\ last.status = 200
   /\ last.op \in { "POST /set", "POST /remove" }) =>
    LET opened == Load(last.at.password, last.body.repr, last.body.checksum)
    IN /\ decodeBuffer(last.body.repr.salt).bytes = last.at.origin
       /\ opened.kind = "engine"
       /\ IF last.op = "POST /set"
          THEN /\ HasOwn(opened.keychain.vault, last.name)
               /\ PropGet(opened.keychain.vault, last.name) = last.value
          ELSE ~HasOwn(opened.keychain.vault, last.name)

\* C19 (the operations agree on the names present): in every state with an
\* engine and for every name, get returns a value (GET /get answers no 404)
\* exactly if the name is in the listing of names, and exactly if remove
\* of the name would return true.
C19_OperationsAgree ==
  kc.live =>
    \A n \in Names :
      LET listed == \E i \in 1..Len(ObjectKeys(kc.vault)) :
                      ObjectKeys(kc.vault)[i] = n
      IN /\ (Get(kc, n) # JsNull) <=> listed
         /\ listed <=> (Remove(kc, n).ret = JsTrue)

\* the routes that ask for a keychain
Guarded == { "GET /get", "POST /set", "POST /remove", "GET /get-all-names" }

\* C20 (session guard, as claimed): as long as no POST /init and no POST
\* /load has been answered with success, activeKeychain is null and what
\* the latest request for a keychain got is 400. No such answer has been
\* sent as long as every handler that ever started to await still awaits.
C20_NullUntilFirstSuccess ==
  asked = Len(flight) =>
    /\ ~kc.live
    /\ last.op \in Guarded => last.status = 400

\* C20 (as amended): as long as no handler of POST /init or POST /load has
\* assigned activeKeychain, it is null, no keychain has been made and every
\* request for a keychain is answered 400 at once; activeKeychain becomes
\* non-null only when Keychain.init of a POST /init or Keychain.load of a
\* POST /load has returned, and is never null again.
C20_SessionGuard ==
  [][/\ kc.live => kc'.live
     /\ ~kc'.live =>
          /\ hist' = NoHist /\ kc' = NoKeychain
          /\ last'.op \in Guarded =>
               last'.stage = "answer" /\ last'.status = 400
     /\ (~kc.live /\ kc'.live) =>
          \/ last'.op = "POST /init" /\ last'.stage = "resume"
          \/ last'.op = "POST /load" /\ last'.status = 200]_vars

C20_Witness ==
  /\ ~kc.live
  /\ last.op = "GET /get" /\ last.status = 400
  /\ Len(flight) = 2
  /\ flight[1].awaits = "init" /\ flight[2].awaits = "load"

\* C18 (what the page keeps): when the page has a vault and no request is
\* in flight, the item of localStorage is the repr and checksum of
\* clientVault and opens, with the password of the active keychain, to the
\* entries of the active keychain.
C18_StorageIsTheActive ==
  (clientVault.live /\ flight = << >>) =>
    /\ sealed.repr = clientVault.repr
    /\ sealed.checksum = clientVault.checksum
    /\ Load(hist.password, sealed.repr, sealed.checksum).kind = "engine"
    /\ Entries(Load(hist.password, sealed.repr, sealed.checksum).keychain.vault)
         = Entries(kc.vault)

====
